---- MODULE Spec2Model ----
(***************************************************************************)
(* Scale resolution and composite merge of the vega-lite compiler          *)
(* (compile/scale.ts): scaleType, domain, domainSort, _includeRawDomain,   *)
(* rangeMixins, pointBandSize, the property rules, parseScaleComponent and *)
(* mergeScales; the unit model's initEncoding and initSize                 *)
(* (compile/unit.ts); and the transform of the label mark                  *)
(* (compile/mark/label.ts).  Each is a state machine whose inputs are      *)
(* drawn from small sets and whose actions apply the functions as the      *)
(* source computes them.                                                   *)
(*                                                                         *)
(* Strings that the code cuts or concatenates (scale names, model names)   *)
(* are sequences of one-character strings; JavaScript objects that the     *)
(* code shares by reference (scale descriptors, scale component sets) live *)
(* in heaps indexed by object identity.                                    *)
(***************************************************************************)
EXTENDS Integers, Sequences, FiniteSets, TLC

VARIABLES
  modelName,   \* LayerModel: the parent's name ('' for an unnamed root)
  channel,     \* the channel argument of mergeScales
  children,    \* model.children(): name, component.scale[channel], recorded renames
  comps,       \* heap of ScaleComponents objects {main, colorLegend, binColorLegend}
  scales,      \* heap of ScaleComponent (VgScale) objects
  input,       \* children, comps and scales as they were when mergeScales was called
  outcome,     \* how the call ended: not called, returned a value, threw
  call,        \* the functions of one model: the arguments of the call
  ret          \* the functions of one model: how far the call is and its result

vars == <<modelName, channel, children, comps, scales, input, outcome, call, ret>>


(***************************************************************************)
(* Bounds                                                                  *)
(***************************************************************************)
MaxChildren == 3

\* the most children the parent of a label has
MaxSiblings == 3

(***************************************************************************)
(* null / undefined, and the absent object reference                       *)
(***************************************************************************)
Null == 0

(***************************************************************************)
(* String constants, as character sequences                                *)
(***************************************************************************)
X_NAME == <<"x">>
COLOR_NAME == <<"c", "o", "l", "o", "r">>
COLOR_LEGEND == <<"c", "o", "l", "o", "r", "_", "l", "e", "g", "e", "n", "d">>
COLOR_LEGEND_LABEL ==
  <<"c", "o", "l", "o", "r", "_", "l", "e", "g", "e", "n", "d", "_", "l", "a", "b", "e", "l">>
LAYER_ == <<"l", "a", "y", "e", "r", "_">>

(***************************************************************************)
(* String.prototype.substr(start): the string from position start (0-based)*)
(***************************************************************************)
substr(s, start) == SubSeq(s, start + 1, Len(s))

(***************************************************************************)
(* Model.name(text): the text scoped by the model's name                   *)
(***************************************************************************)
name(n, text) == IF n = <<>> THEN text ELSE n \o <<"_">> \o text

(***************************************************************************)
(* Model.scaleName(channel) of a model that has renamed none of its scales *)
(***************************************************************************)
scaleName(n, text) == name(n, text)

(***************************************************************************)
(* Model.renameScale(oldName, newName): the renaming is recorded on the    *)
(* model                                                                   *)
(***************************************************************************)
renameScale(child, oldName, newName) ==
  [child EXCEPT !.renames = Append(@, <<oldName, newName>>)]

(***************************************************************************)
(* util.hash: a key that is the canonical serialization of the value       *)
(***************************************************************************)
hash(a) == ToString(a)

(***************************************************************************)
(* vega.schema isUnionedDomain: a non-array domain with a `fields` member. *)
(* A literal array is the record [values |-> <<...>>].                     *)
(***************************************************************************)
isArray(d) == "values" \in DOMAIN d

isUnionedDomain(d) == IF ~isArray(d) THEN "fields" \in DOMAIN d ELSE FALSE

(***************************************************************************)
(* A JavaScript object used as a dictionary keeps its keys in insertion    *)
(* order: a sequence of [key, value]; assigning to a present key replaces  *)
(* the value in place.  util.vals lists the values in key order.           *)
(***************************************************************************)
dictHas(d, k) == \E i \in 1..Len(d) : d[i].key = k

dictPut(d, k, v) ==
  IF dictHas(d, k)
    THEN [i \in 1..Len(d) |-> IF d[i].key = k THEN [key |-> k, value |-> v] ELSE d[i]]
    ELSE Append(d, [key |-> k, value |-> v])

vals(d) == [i \in 1..Len(d) |-> d[i].value]

(***************************************************************************)
(* mergeScales(model, channel).  The loop state st holds what the          *)
(* arrow function of children().forEach reads and writes: the children,    *)
(* the two heaps, scaleComp (a reference, Null before the first adoption)  *)
(* and the domains dictionary.  cs is childScales, a reference into comps. *)
(***************************************************************************)

\* a slip that lets every sub-view replace the base
mergeAdoptBaseLastWins(st, cs) == [st EXCEPT !.scaleComp = cs]

\* lines 522-525: range and other things are defined by the first scale
mergeAdoptBase(st, cs) ==
  IF st.scaleComp = Null THEN [st EXCEPT !.scaleComp = cs] ELSE st

RECURSIVE dictPutAll(_, _)
dictPutAll(d, fields) ==
  IF fields = <<>> THEN d
  ELSE dictPutAll(dictPut(d, hash(Head(fields)), Head(fields)), Tail(fields))

\* a slip that assumes the adopted base already carries its own domain
mergeCollectDomainSkipBase(st, cs) ==
  LET childDomain == st.scales[st.comps[cs].main].domain IN
  IF st.scaleComp = cs THEN st
  ELSE IF isUnionedDomain(childDomain)
    THEN [st EXCEPT !.domains = dictPutAll(@, childDomain.fields)]
    ELSE [st EXCEPT !.domains = dictPut(@, hash(childDomain), childDomain)]

\* a slip that keys a union domain whole instead of expanding it
mergeCollectDomainNoFlatten(st, cs) ==
  LET childDomain == st.scales[st.comps[cs].main].domain IN
  [st EXCEPT !.domains = dictPut(@, hash(childDomain), childDomain)]

\* lines 527-536: the child domain may itself be a union of domains
mergeCollectDomain(st, cs) ==
  LET childDomain == st.scales[st.comps[cs].main].domain IN
  IF isUnionedDomain(childDomain)
    THEN [st EXCEPT !.domains = dictPutAll(@, childDomain.fields)]
    ELSE [st EXCEPT !.domains = dictPut(@, hash(childDomain), childDomain)]

\* lines 538-544: add color legend and color legend bin scales if we don't
\* have them yet
mergeAdoptLegends(st, cs) ==
  LET sc == st.scaleComp
      cl == st.comps[cs].colorLegend
      st1 == IF cl # Null
               THEN [st EXCEPT !.comps[sc].colorLegend =
                       IF st.comps[sc].colorLegend # Null
                         THEN st.comps[sc].colorLegend ELSE cl]
               ELSE st
      bl == st1.comps[cs].binColorLegend
  IN IF bl # Null
       THEN [st1 EXCEPT !.comps[sc].binColorLegend =
               IF st1.comps[sc].binColorLegend # Null
                 THEN st1.comps[sc].binColorLegend ELSE bl]
       ELSE st1

\* a slip that renames the scale but forgets to tell the child
mergeRenameOneUnrecorded(st, i, s, mname) ==
  LET child == st.children[i]
      scaleNameWithoutPrefix == substr(st.scales[s].name, Len(name(child.name, <<>>)))
      newName == scaleName(mname, scaleNameWithoutPrefix)
  IN [st EXCEPT !.scales[s].name = newName]

\* lines 549-554: the body of the renaming forEach, for the scale object s
mergeRenameOne(st, i, s, mname) ==
  LET child == st.children[i]
      scaleNameWithoutPrefix == substr(st.scales[s].name, Len(name(child.name, <<>>)))
      newName == scaleName(mname, scaleNameWithoutPrefix)
  IN [st EXCEPT !.children[i] = renameScale(child, st.scales[s].name, newName),
                !.scales[s].name = newName]

RECURSIVE mergeRenameEach(_, _, _, _)
mergeRenameEach(st, i, list, mname) ==
  IF list = <<>> THEN st
  ELSE mergeRenameEach(mergeRenameOne(st, i, Head(list), mname), i, Tail(list), mname)

\* lines 546-554: rename scale references to merged scales
mergeRename(st, i, cs, mname) ==
  LET c == st.comps[cs]
      list == SelectSeq(<<c.main, c.colorLegend, c.binColorLegend>>, LAMBDA x : x # Null)
  IN mergeRenameEach(st, i, list, mname)

\* line 556: delete child.component.scale[channel]
mergeDelete(st, i) == [st EXCEPT !.children[i].scale = Null]

\* lines 516-557: the body of children().forEach for the i-th child
mergeChild(st, i, mname) ==
  LET childScales == st.children[i].scale IN
  IF childScales = Null THEN st
  ELSE
    LET st1 == mergeAdoptBase(st, childScales)
        st2 == mergeCollectDomain(st1, childScales)
        st3 == mergeAdoptLegends(st2, childScales)
        st4 == mergeRename(st3, i, childScales, mname)
    IN mergeDelete(st4, i)

RECURSIVE mergeLoop(_, _, _)
mergeLoop(st, i, mname) ==
  IF i > Len(st.children) THEN st
  ELSE mergeLoop(mergeChild(st, i, mname), i + 1, mname)

\* lines 559-569: construct the domain that will be used for all scales
mergeFinalDomain(domainArr) ==
  IF Len(domainArr) = 1 THEN domainArr[1] ELSE [fields |-> domainArr]

\* a slip that leaves the legend scales their own domains
mergeSetDomainsMainOnly(st, d) ==
  LET c == st.comps[st.scaleComp]
  IN [st EXCEPT !.scales = [st.scales EXCEPT ![c.main].domain = d]]

\* lines 571-578: set domains for all scales
mergeSetDomains(st, d) ==
  LET c == st.comps[st.scaleComp]
      s1 == [st.scales EXCEPT ![c.main].domain = d]
      s2 == IF c.colorLegend # Null THEN [s1 EXCEPT ![c.colorLegend].domain = d] ELSE s1
      s3 == IF c.binColorLegend # Null THEN [s2 EXCEPT ![c.binColorLegend].domain = d] ELSE s2
  IN [st EXCEPT !.scales = s3]

(***************************************************************************)
(* lines 511-581.  The result is the final loop state and how the call     *)
(* ended.  With scaleComp still null, `scaleComp.main.domain = domain`     *)
(* (line 572) dereferences null: the call throws a TypeError and returns   *)
(* nothing.                                                                *)
(***************************************************************************)
mergeScales(mname, ch, cn, cp, sl) ==
  LET st0 == [children |-> cn, comps |-> cp, scales |-> sl,
              scaleComp |-> Null, domains |-> <<>>]
      st == mergeLoop(st0, 1, mname)
      d == mergeFinalDomain(vals(st.domains))
  IN IF st.scaleComp = Null
       THEN [st |-> st, end |-> [kind |-> "throw", value |-> Null]]
       ELSE [st |-> mergeSetDomains(st, d),
             end |-> [kind |-> "return", value |-> st.scaleComp]]

(***************************************************************************)
(* Scale resolution of one channel of a unit model.  A value that may be   *)
(* undefined is "undefined" where it is a string and UNDEFINED where it is *)
(* an object or an array; null is "null".                                  *)
(***************************************************************************)
UNDEFINED == [undefined |-> TRUE]

isDefined(v) == "undefined" \notin DOMAIN v

\* channel.ts
X == "x"
Y == "y"
ROW == "row"
COLUMN == "column"
SHAPE == "shape"
SIZE == "size"
COLOR == "color"
TEXT == "text"

\* type.ts
NOMINAL == "nominal"
ORDINAL == "ordinal"
QUANTITATIVE == "quantitative"
\* TEMPORAL of type.ts (the bare word is reserved in TLA+)
TEMPORAL_ == "temporal"

\* scale.ts, enum ScaleType
ScaleTypes == {"linear", "log", "pow", "sqrt", "quantize", "ordinal", "time", "utc"}

\* data.ts
SCALE == "scale"
STACKED_SCALE == "stacked_scale"

\* aggregate.ts: the aggregates whose values range in the field's own domain
SHARED_DOMAIN_OPS == {"mean", "average", "stdev", "stdevp", "median", "q1", "q3", "min", "max"}

\* channel.hasScale: text (like detail, path, order) carries no scale
hasScale(ch) == ch \notin {TEXT}

\* scale.hasDiscreteDomain
hasDiscreteDomain(type) == type = "ordinal"

\* time.rawDomain: the time units with a small cyclical domain of their own
rawDomain(timeUnit, ch) == timeUnit \in {"day", "month"}

\* Model.dataName: the table name in the scope of the unit model
dataName(d) == <<"unit", d>>

contains(array, item) == item \in array

\* a slip that interpolates nominal colors like ordinal ones
scaleTypeOfFieldNominalColor(fieldDef, ch) ==
  CASE fieldDef.type \in {NOMINAL, ORDINAL} ->
         IF ch = COLOR THEN "linear" ELSE "ordinal"
    [] fieldDef.type = TEMPORAL_ ->
         IF ch = COLOR THEN "time"
         ELSE IF fieldDef.timeUnit # "undefined"
           THEN (IF fieldDef.timeUnit \in {"hours", "day", "month"} THEN "ordinal" ELSE "time")
           ELSE "time"
    [] fieldDef.type = QUANTITATIVE ->
         IF fieldDef.bin
           THEN (IF contains({X, Y, COLOR}, ch) THEN "linear" ELSE "ordinal")
           ELSE "linear"
    [] OTHER -> "null"

\* a slip that takes every binned field for discrete
scaleTypeOfFieldBinOrdinal(fieldDef, ch) ==
  CASE fieldDef.type = NOMINAL -> "ordinal"
    [] fieldDef.type = ORDINAL ->
         IF ch = COLOR THEN "linear" ELSE "ordinal"
    [] fieldDef.type = TEMPORAL_ ->
         IF ch = COLOR THEN "time"
         ELSE IF fieldDef.timeUnit # "undefined"
           THEN (IF fieldDef.timeUnit \in {"hours", "day", "month"} THEN "ordinal" ELSE "time")
           ELSE "time"
    [] fieldDef.type = QUANTITATIVE ->
         IF fieldDef.bin THEN "ordinal" ELSE "linear"
    [] OTHER -> "null"

\* a slip that tests the time unit before the color channel
scaleTypeOfFieldTimeUnitFirst(fieldDef, ch) ==
  CASE fieldDef.type = NOMINAL -> "ordinal"
    [] fieldDef.type = ORDINAL ->
         IF ch = COLOR THEN "linear" ELSE "ordinal"
    [] fieldDef.type = TEMPORAL_ ->
         IF fieldDef.timeUnit # "undefined"
           THEN (IF fieldDef.timeUnit \in {"hours", "day", "month"} THEN "ordinal" ELSE "time")
         ELSE IF ch = COLOR THEN "time"
         ELSE "time"
    [] fieldDef.type = QUANTITATIVE ->
         IF fieldDef.bin
           THEN (IF contains({X, Y, COLOR}, ch) THEN "linear" ELSE "ordinal")
           ELSE "linear"
    [] OTHER -> "null"

\* lines 164-198: the switch on fieldDef.type
scaleTypeOfField(fieldDef, ch) ==
  CASE fieldDef.type = NOMINAL -> "ordinal"
    [] fieldDef.type = ORDINAL ->
         IF ch = COLOR THEN "linear" ELSE "ordinal"
    [] fieldDef.type = TEMPORAL_ ->
         IF ch = COLOR THEN "time"
         ELSE IF fieldDef.timeUnit # "undefined"
           THEN (IF fieldDef.timeUnit \in {"hours", "day", "month"} THEN "ordinal" ELSE "time")
           ELSE "time"
    [] fieldDef.type = QUANTITATIVE ->
         IF fieldDef.bin
           THEN (IF contains({X, Y, COLOR}, ch) THEN "linear" ELSE "ordinal")
           ELSE "linear"
    [] OTHER -> "null"

\* a slip that lets an explicit category win on row, column and shape too
scaleTypeExplicitFirst(scale, fieldDef, ch, mark) ==
  IF ~hasScale(ch) THEN "null"
  ELSE IF scale.type # "undefined" THEN scale.type
  ELSE IF contains({ROW, COLUMN, SHAPE}, ch) THEN "ordinal"
  ELSE scaleTypeOfField(fieldDef, ch)

\* lines 149-199
scaleType(scale, fieldDef, ch, mark) ==
  IF ~hasScale(ch) THEN "null"
  ELSE IF contains({ROW, COLUMN, SHAPE}, ch) THEN "ordinal"
  ELSE IF scale.type # "undefined" THEN scale.type
  ELSE scaleTypeOfField(fieldDef, ch)

(***************************************************************************)
(* fielddef.field(fieldDef, opt): the reference to a column of a table, as *)
(* <<prefix function, function, field, suffix>>.  A binned field refers to *)
(* a bin column, an aggregated one to the aggregate unless noAggregate is  *)
(* set, one with a time unit to the unit's column.                         *)
(***************************************************************************)
NoOpt == [prefn |-> "", binSuffix |-> "", noAggregate |-> FALSE]

field(fieldDef, opt) ==
  <<opt.prefn,
    IF fieldDef.bin THEN "bin"
    ELSE IF ~opt.noAggregate /\ fieldDef.aggregate # "undefined" THEN fieldDef.aggregate
    ELSE IF fieldDef.timeUnit # "undefined" THEN fieldDef.timeUnit
    ELSE "",
    fieldDef.field,
    IF fieldDef.bin THEN opt.binSuffix ELSE "">>

\* UnitModel.field (unit.ts 360-370): bin has a default suffix that depends
\* on the scale type
modelField(scale, fieldDef, opt) ==
  IF fieldDef.bin /\ opt.binSuffix = ""
    THEN field(fieldDef, [opt EXCEPT !.binSuffix =
                            IF hasDiscreteDomain(scale.type) THEN "range" ELSE "start"])
    ELSE field(fieldDef, opt)

\* lines 285-305; the sort of the encoding is UNDEFINED, a string or an
\* object {op, field}; the result is UNDEFINED, true or an object
domainSort(sort, type) ==
  IF type # "ordinal" THEN UNDEFINED
  ELSE IF ~isDefined(sort) \/ (sort.kind = "string" /\ sort.value \in {"ascending", "descending"})
    THEN [kind |-> "true"]
  ELSE IF sort.kind # "string" THEN [kind |-> "object", op |-> sort.op, field |-> sort.field]
  ELSE UNDEFINED

\* lines 315-332
includeRawDomain(scale, fieldDef) ==
  /\ scale.includeRawDomain
  /\ fieldDef.aggregate # "undefined"
  /\ fieldDef.aggregate \in SHARED_DOMAIN_OPS
  /\ \/ (fieldDef.type = QUANTITATIVE /\ ~fieldDef.bin)
     \/ (fieldDef.type = TEMPORAL_ /\ contains({"time", "utc"}, scale.type))

\* lines 208-225: special case for temporal scale
domainTemporal(scale, fieldDef, ch) ==
  IF rawDomain(fieldDef.timeUnit, ch)
    THEN [data |-> <<fieldDef.timeUnit>>, field |-> <<"date">>]
    ELSE [data |-> dataName(SCALE),
          field |-> modelField(scale, fieldDef, NoOpt),
          sort |-> [kind |-> "object",
                    field |-> modelField(scale, fieldDef, NoOpt),
                    op |-> "min"]]

\* a slip that forgets the normalized offset
domainStackIgnoresOffset(scale, fieldDef, stack) ==
  [data |-> dataName(STACKED_SCALE),
   field |-> modelField(scale, fieldDef, [NoOpt EXCEPT !.prefn = "sum_"])]

\* lines 227-238: for stack, use STACKED data
domainStack(scale, fieldDef, stack) ==
  IF stack.offset = "normalize"
    THEN [values |-> <<0, 1>>]
    ELSE [data |-> dataName(STACKED_SCALE),
          field |-> modelField(scale, fieldDef, [NoOpt EXCEPT !.prefn = "sum_"])]

\* the field of an unbinned domain taken from the summary table
domainRankOrField(scale, fieldDef, ch) ==
  IF fieldDef.type = ORDINAL /\ ch = COLOR
    THEN modelField(scale, fieldDef, [NoOpt EXCEPT !.prefn = "rank_"])
    ELSE modelField(scale, fieldDef, NoOpt)

\* lines 248-268: the domain of a binned field
domainBin(scale, fieldDef, ch) ==
  IF scale.type = "ordinal"
    THEN [data |-> dataName(SCALE),
          field |-> modelField(scale, fieldDef, [NoOpt EXCEPT !.binSuffix = "_range"]),
          sort |-> [kind |-> "object",
                    field |-> modelField(scale, fieldDef, [NoOpt EXCEPT !.binSuffix = "_start"]),
                    op |-> "min"]]
  ELSE IF ch = COLOR
    THEN [data |-> dataName(SCALE),
          field |-> modelField(scale, fieldDef, [NoOpt EXCEPT !.binSuffix = "_start"])]
    ELSE [data |-> dataName(SCALE),
          fields2 |-> <<modelField(scale, fieldDef, [NoOpt EXCEPT !.binSuffix = "_start"]),
                        modelField(scale, fieldDef, [NoOpt EXCEPT !.binSuffix = "_end"])>>]

\* lines 269-276: have sort -- only for ordinal
domainSorted(scale, fieldDef, ch, sort) ==
  [data |-> IF sort.kind = "object" /\ sort.op # "undefined"
              THEN <<SCALE>> ELSE dataName(SCALE),
   field |-> domainRankOrField(scale, fieldDef, ch),
   sort |-> sort]

\* lines 277-282
domainDefault(scale, fieldDef, ch) ==
  [data |-> dataName(SCALE), field |-> domainRankOrField(scale, fieldDef, ch)]

\* a slip that tests the sort before the bin
domainOfSummarySortFirst(scale, fieldDef, ch, sortSpec) ==
  LET sort == domainSort(sortSpec, scale.type) IN
  IF includeRawDomain(scale, fieldDef)
    THEN [data |-> <<SCALE>>,
          field |-> modelField(scale, fieldDef, [NoOpt EXCEPT !.noAggregate = TRUE])]
  ELSE IF isDefined(sort) THEN domainSorted(scale, fieldDef, ch, sort)
  ELSE IF fieldDef.bin THEN domainBin(scale, fieldDef, ch)
  ELSE domainDefault(scale, fieldDef, ch)

\* lines 240-282: raw domain, bin, sort, default
domainOfSummary(scale, fieldDef, ch, sortSpec) ==
  LET sort == domainSort(sortSpec, scale.type) IN
  IF includeRawDomain(scale, fieldDef)
    THEN [data |-> <<SCALE>>,
          field |-> modelField(scale, fieldDef, [NoOpt EXCEPT !.noAggregate = TRUE])]
  ELSE IF fieldDef.bin THEN domainBin(scale, fieldDef, ch)
  ELSE IF isDefined(sort) THEN domainSorted(scale, fieldDef, ch, sort)
  ELSE domainDefault(scale, fieldDef, ch)

\* lines 201-283; the model supplies fieldDef(channel), stack() and
\* sort(channel)
domain(scale, fieldDef, ch, stack, sortSpec) ==
  IF isDefined(scale.domain) THEN scale.domain
  ELSE IF fieldDef.type = TEMPORAL_ THEN domainTemporal(scale, fieldDef, ch)
  ELSE IF isDefined(stack) /\ ch = stack.fieldChannel THEN domainStack(scale, fieldDef, stack)
  ELSE domainOfSummary(scale, fieldDef, ch, sortSpec)

(***************************************************************************)
(* The sub-views handed to mergeScales.  Child i of a layer is named       *)
(* name('layer_' + i); a child that binds the channel holds the component  *)
(* set parseScaleComponent built for it: a main scale named                *)
(* scaleName(channel) and, for color only, the legend scales named         *)
(* scaleName(COLOR_LEGEND) and scaleName(COLOR_LEGEND_LABEL).  Children    *)
(* differ in category, range and zero so that the winner of a tie shows.   *)
(***************************************************************************)
ParentNames == {<<>>, LAYER_ \o <<"1">>}

Channels == {X_NAME, COLOR_NAME}

\* the main domains sub-views bring: what domain() infers for a plain field
\* and for a sorted ordinal scale, and unions of them left by a merge below
PlainField(f) ==
  [field |-> f, type |-> QUANTITATIVE, bin |-> FALSE,
   timeUnit |-> "undefined", aggregate |-> "undefined"]

DA == domainDefault([type |-> "linear"], PlainField("a"), COLOR)
DB == domainDefault([type |-> "linear"], PlainField("b"), COLOR)
DC == domainSorted([type |-> "ordinal"], PlainField("c"), COLOR, [kind |-> "true"])
DomainChoices == <<DA, DB, [fields |-> <<DA, DB>>], [fields |-> <<DC, DB>>]>>

ChildTypes == <<"linear", "log", "sqrt">>

childName(mname, i) == name(mname, LAYER_ \o <<ToString(i - 1)>>)

\* <<domain, legend scales>> of a sub-view that binds the channel: none, the
\* full legend scale, or the full and the binned-label legend scale
ChildKinds ==
  {<<1, 0>>, <<1, 1>>, <<2, 0>>, <<2, 2>>, <<3, 0>>, <<3, 1>>, <<4, 0>>, <<4, 2>>}

ChildConfigs(ch) ==
  {[defined |-> FALSE, dom |-> 1, legends |-> 0]} \cup
  {[defined |-> TRUE, dom |-> k[1], legends |-> IF ch = COLOR_NAME THEN k[2] ELSE 0] :
     k \in ChildKinds}

mainId(i) == 3 * i - 2
colorLegendId(i) == 3 * i - 1
binColorLegendId(i) == 3 * i

\* the scale of the i-th sub-view, with its resolved category
childScaleType(i) == [type |-> ChildTypes[((i - 1) % Len(ChildTypes)) + 1]]

\* parseMainScale, lines 70-104: the descriptor of the main scale
childMainScale(mname, ch, i, cfg) ==
  [name |-> scaleName(childName(mname, i), ch),
   type |-> childScaleType(i).type,
   domain |-> DomainChoices[cfg.dom],
   range |-> [values |-> <<0, i>>],
   zero |-> (i % 2 = 0)]

\* the color field of the i-th sub-view: ordinal, or binned when the
\* sub-view has the binned-label legend scale
childFieldDef(i, binned) ==
  [field |-> ToString(i), type |-> IF binned THEN QUANTITATIVE ELSE ORDINAL,
   bin |-> binned, timeUnit |-> "undefined", aggregate |-> "undefined"]

\* parseColorLegendScale, lines 112-124, of the model named n whose color
\* scale is scale
parseColorLegendScale(n, scale, fieldDef) ==
  [name |-> scaleName(n, COLOR_LEGEND),
   type |-> "ordinal",
   domain |-> [data |-> dataName(SCALE),
               field |-> modelField(scale, fieldDef,
                                    IF fieldDef.bin \/ fieldDef.timeUnit # "undefined"
                                      THEN NoOpt ELSE [NoOpt EXCEPT !.prefn = "rank_"]),
               sort |-> [kind |-> "true"]],
   range |-> [data |-> dataName(SCALE),
              field |-> modelField(scale, fieldDef, NoOpt),
              sort |-> [kind |-> "true"]]]

\* parseBinColorLegendLabel, lines 129-147
parseBinColorLegendLabel(n, scale, fieldDef) ==
  [name |-> scaleName(n, COLOR_LEGEND_LABEL),
   type |-> "ordinal",
   domain |-> [data |-> dataName(SCALE),
               field |-> modelField(scale, fieldDef, NoOpt),
               sort |-> [kind |-> "true"]],
   range |-> [data |-> dataName(SCALE),
              field |-> field(fieldDef, [NoOpt EXCEPT !.binSuffix = "_range"]),
              sort |-> [kind |-> "object",
                        field |-> modelField(scale, fieldDef,
                                             [NoOpt EXCEPT !.binSuffix = "_start"]),
                        op |-> "min"]]]

childrenOf(mname, cfgs) ==
  [i \in 1..Len(cfgs) |->
     [name |-> childName(mname, i),
      scale |-> IF cfgs[i].defined THEN i ELSE Null,
      renames |-> <<>>]]

compsOf(cfgs) ==
  [i \in {j \in 1..Len(cfgs) : cfgs[j].defined} |->
     [main |-> mainId(i),
      colorLegend |-> IF cfgs[i].legends >= 1 THEN colorLegendId(i) ELSE Null,
      binColorLegend |-> IF cfgs[i].legends >= 2 THEN binColorLegendId(i) ELSE Null]]

scalesOf(mname, ch, cfgs) ==
  LET ids == UNION {{mainId(i)} \cup
                    (IF cfgs[i].legends >= 1 THEN {colorLegendId(i)} ELSE {}) \cup
                    (IF cfgs[i].legends >= 2 THEN {binColorLegendId(i)} ELSE {}) :
                    i \in {j \in 1..Len(cfgs) : cfgs[j].defined}}
  IN [s \in ids |->
        LET i == (s + 2) \div 3 IN
        IF s = mainId(i) THEN childMainScale(mname, ch, i, cfgs[i])
        ELSE IF s = colorLegendId(i)
          THEN parseColorLegendScale(childName(mname, i), childScaleType(i),
                                     childFieldDef(i, cfgs[i].legends >= 2))
        ELSE parseBinColorLegendLabel(childName(mname, i), childScaleType(i),
                                      childFieldDef(i, TRUE))]

NotCalled == [kind |-> "none", value |-> Null]

Init ==
  /\ modelName \in ParentNames
  /\ channel \in Channels
  /\ \E n \in 0..MaxChildren : \E cfgs \in [1..n -> ChildConfigs(channel)] :
       /\ children = childrenOf(modelName, cfgs)
       /\ comps = compsOf(cfgs)
       /\ scales = scalesOf(modelName, channel, cfgs)
  /\ input = [children |-> children, comps |-> comps, scales |-> scales]
  /\ outcome = NotCalled
  /\ call = UNDEFINED
  /\ ret = UNDEFINED

(***************************************************************************)
(* The call mergeScales(model, channel)                                    *)
(***************************************************************************)
MergeScales ==
  /\ outcome.kind = "none"
  /\ LET r == mergeScales(modelName, channel, children, comps, scales) IN
       /\ children' = r.st.children
       /\ comps' = r.st.comps
       /\ scales' = r.st.scales
       /\ outcome' = r.end
  /\ UNCHANGED <<modelName, channel, input, call, ret>>

Next == MergeScales

Spec == Init /\ [][Next]_vars

(***************************************************************************)
(* Properties of mergeScales.  They compare the state after the call with  *)
(* the state `input` at the call.                                          *)
(***************************************************************************)
Returned == outcome.kind = "return"

Defines(i) == input.children[i].scale # Null

Defining == {i \in 1..Len(input.children) : Defines(i)}

NoChildDefines == Defining = {}

\* the main domain the i-th sub-view brought to the merge
InputDomain(i) == input.scales[input.comps[input.children[i].scale].main].domain

Members(d) == IF isUnionedDomain(d) THEN {d.fields[k] : k \in 1..Len(d.fields)} ELSE {d}

\* the structurally distinct domains of the sub-views, unions replaced by
\* their members
DistinctDomains == UNION {Members(InputDomain(i)) : i \in Defining}

FirstDefining == CHOOSE i \in Defining : \A j \in Defining : i <= j

ResultComp == comps[outcome.value]

ResultMain == scales[ResultComp.main]

\* C1: when no sub-view defines the channel (the empty list included),
\* mergeScales returns null, raises no error and changes no child.
C1_FailsSilently ==
  (outcome.kind # "none" /\ NoChildDefines) =>
     /\ outcome = [kind |-> "return", value |-> Null]
     /\ children = input.children
     /\ comps = input.comps
     /\ scales = input.scales

\* C2: after a merge over sub-views of which at least one defines the
\* channel, the shared main domain is the single distinct domain itself when
\* there is exactly one, and otherwise a union listing every distinct domain
\* exactly once and holding no union.
C2_SharedDomain ==
  Returned =>
    LET d == ResultMain.domain IN
    IF Cardinality(DistinctDomains) = 1
      THEN d \in DistinctDomains
      ELSE /\ isUnionedDomain(d)
           /\ Members(d) = DistinctDomains
           /\ Len(d.fields) = Cardinality(DistinctDomains)
           /\ \A k \in 1..Len(d.fields) : ~isUnionedDomain(d.fields[k])

\* two sub-views bring unions that overlap: three distinct domains survive
C2_Witness ==
  /\ Returned
  /\ Cardinality(DistinctDomains) = 3
  /\ \E i, j \in Defining : i # j /\ isUnionedDomain(InputDomain(i))
                                  /\ isUnionedDomain(InputDomain(j))

\* the first sub-view in declaration order that provides the legend scale
\* (Null when none does); comp field f is "colorLegend" or "binColorLegend"
FirstLegend(f) ==
  LET P == {i \in Defining : input.comps[input.children[i].scale][f] # Null} IN
  IF P = {} THEN Null
  ELSE input.comps[input.children[CHOOSE i \in P : \A j \in P : i <= j].scale][f]

SameButDomainAndName(s, s0) == s.type = s0.type /\ s.range = s0.range

\* C3: the earliest-declared sub-view that defines the channel is
\* authoritative for the main scale (category, range, optional properties,
\* name renamed into the parent's scope); later sub-views change only the
\* domain; a legend scale of the result is the one of the first sub-view that
\* provides it.
C3_FirstIsAuthoritative ==
  Returned =>
    LET c0 == input.comps[input.children[FirstDefining].scale]
        m0 == input.scales[c0.main]
    IN /\ ResultComp.main = c0.main
       /\ SameButDomainAndName(ResultMain, m0)
       /\ ResultMain.zero = m0.zero
       /\ ResultMain.name = name(modelName, channel)
       /\ \A f \in {"colorLegend", "binColorLegend"} :
            /\ ResultComp[f] = FirstLegend(f)
            /\ ResultComp[f] # Null =>
                 SameButDomainAndName(scales[ResultComp[f]], input.scales[ResultComp[f]])

\* the first sub-view lacks the channel, the base has no legend scale and a
\* later sub-view, of another category, provides one
C3_Witness ==
  /\ Returned
  /\ FirstDefining > 1
  /\ input.comps[input.children[FirstDefining].scale].colorLegend = Null
  /\ ResultComp.colorLegend # Null
  /\ \E j \in Defining : j > FirstDefining /\
        input.scales[input.comps[input.children[j].scale].main].type # ResultMain.type

\* the permutations of 1..n
Perms(n) == {p \in [1..n -> 1..n] : \A i, j \in 1..n : i # j => p[i] # p[j]}

\* the merged main domain when the sub-views are declared in the order p
mainDomainOf(r) == r.st.scales[r.st.comps[r.end.value].main].domain

MergedDomainInOrder(p) ==
  mainDomainOf(mergeScales(modelName, channel,
                           [i \in 1..Len(input.children) |-> input.children[p[i]]],
                           input.comps, input.scales))

\* what of a merged domain the order of the sub-views must not change
Shape(d) == [members |-> Members(d), plain |-> ~isUnionedDomain(d)]

\* C4: for every permutation of the sub-views the merged main domain has the
\* same distinct domains, and it is a plain domain for one order exactly when
\* it is for every order.
C4_OrderInsensitiveDomains ==
  Returned =>
    \A p \in Perms(Len(input.children)) :
      Shape(MergedDomainInOrder(p)) = Shape(ResultMain.domain)

\* sub-views with different domains, a union among them, behind a sub-view
\* without the channel
C4_Witness ==
  /\ Returned
  /\ Len(input.children) = 3
  /\ Cardinality(Defining) = 2
  /\ \E i, j \in Defining :
       /\ InputDomain(i) # InputDomain(j)
       /\ isUnionedDomain(InputDomain(i))
       /\ ~isUnionedDomain(InputDomain(j))
  /\ isUnionedDomain(ResultMain.domain)

\* the rename pairs recorded on the i-th sub-view
Renames(i) == {children[i].renames[k] : k \in 1..Len(children[i].renames)}

\* the scales the i-th sub-view held for the channel, with the name each has
\* below a model's scope
InputScalesOf(i) ==
  LET c == input.comps[input.children[i].scale] IN
  {<<c.main, channel>>} \cup
  (IF c.colorLegend # Null THEN {<<c.colorLegend, COLOR_LEGEND>>} ELSE {}) \cup
  (IF c.binColorLegend # Null THEN {<<c.binColorLegend, COLOR_LEGEND_LABEL>>} ELSE {})

\* C5: after mergeScales returns, every sub-view that defined the channel
\* holds no component set for it any more, and for each of its scales the
\* rename from the old sub-view-scoped name to the parent-scoped name is
\* recorded on it, so all main scales end with the same shared name.
C5_ChildrenReleasedAndRenamed ==
  Returned =>
    \A i \in Defining :
      /\ children[i].scale = Null
      /\ Renames(i) =
           {<<input.scales[e[1]].name, name(modelName, e[2])>> : e \in InputScalesOf(i)}
      /\ Len(children[i].renames) = Cardinality(InputScalesOf(i))
      /\ <<input.scales[input.comps[input.children[i].scale].main].name, ResultMain.name>>
           \in Renames(i)

\* two sub-views of a named parent defined the channel, one with all three
\* scales
C5_Witness ==
  /\ Returned
  /\ modelName # <<>>
  /\ Cardinality(Defining) >= 2
  /\ \E i \in Defining : Len(children[i].renames) = 3

(***************************************************************************)
(* One channel of a unit model: the encoding binds a field to the channel, *)
(* the unit model resolves the scale of the channel (its category by       *)
(* scaleType), and parseMainScale then infers the domain with that scale.  *)
(***************************************************************************)
ChannelValues == {X, Y, ROW, COLUMN, SHAPE, SIZE, COLOR, TEXT}

ScaleSpecs ==
  [type : {"undefined", "ordinal", "linear", "time", "utc"},
   domain : {UNDEFINED, [values |-> <<0, 5>>]},
   includeRawDomain : BOOLEAN]

FieldDefs ==
  [field : {"f"},
   type : {NOMINAL, ORDINAL, QUANTITATIVE, TEMPORAL_},
   bin : BOOLEAN,
   timeUnit : {"undefined", "hours", "month", "year"},
   aggregate : {"undefined", "mean", "sum"}]

Stacks ==
  {UNDEFINED,
   [fieldChannel |-> X, offset |-> "normalize"],
   [fieldChannel |-> X, offset |-> "zero"],
   [fieldChannel |-> Y, offset |-> "normalize"]}

Sorts ==
  {UNDEFINED,
   [kind |-> "string", value |-> "descending"],
   [kind |-> "string", value |-> "none"],
   [kind |-> "object", op |-> "mean", field |-> <<"g">>]}

Marks == {"point"}

InitScaleSpec ==
  /\ call \in [channel : ChannelValues, mark : Marks, scale : ScaleSpecs,
               fieldDef : FieldDefs, stack : Stacks, sort : Sorts]
  /\ ret = [stage |-> "spec", type |-> "undefined", domain |-> UNDEFINED]
  /\ modelName = <<>>
  /\ channel = X_NAME
  /\ children = <<>>
  /\ comps = <<>>
  /\ scales = <<>>
  /\ input = [children |-> <<>>, comps |-> <<>>, scales |-> <<>>]
  /\ outcome = NotCalled

\* the unit model resolves the category of the channel's scale
InitScale ==
  /\ ret.stage = "spec"
  /\ ret' = [ret EXCEPT !.stage = "scale",
                        !.type = scaleType(call.scale, call.fieldDef, call.channel, call.mark)]
  /\ UNCHANGED <<call, modelName, channel, children, comps, scales, input, outcome>>

\* model.scale(channel): the scale specification with its resolved category
modelScale == [call.scale EXCEPT !.type = ret.type]

\* parseMainScale for a channel that has a scale: scaleDef.domain
ParseMainScale ==
  /\ ret.stage = "scale"
  /\ ret.type # "null"
  /\ ret' = [ret EXCEPT !.stage = "parsed",
                        !.domain = domain(modelScale, call.fieldDef, call.channel,
                                          call.stack, call.sort)]
  /\ UNCHANGED <<call, modelName, channel, children, comps, scales, input, outcome>>

NextScale == InitScale \/ ParseMainScale

SpecScale == InitScaleSpec /\ [][NextScale]_vars

(***************************************************************************)
(* Properties of scaleType and domain                                      *)
(***************************************************************************)
Resolved == ret.stage \in {"scale", "parsed"}

Parsed == ret.stage = "parsed"

\* which precedence rules of the domain inference apply to the call
ExplicitDomain == isDefined(call.scale.domain)

TemporalField == call.fieldDef.type = TEMPORAL_

StackedChannel == isDefined(call.stack) /\ call.channel = call.stack.fieldChannel

RawDomainActive ==
  /\ call.scale.includeRawDomain
  /\ call.fieldDef.aggregate \in SHARED_DOMAIN_OPS
  /\ \/ call.fieldDef.type = QUANTITATIVE /\ ~call.fieldDef.bin
     \/ call.fieldDef.type = TEMPORAL_ /\ ret.type \in {"time", "utc"}

BinnedField == call.fieldDef.bin

SortPresent ==
  /\ ret.type = "ordinal"
  /\ ~(isDefined(call.sort) /\ call.sort.kind = "string" /\ call.sort.value = "none")

\* what the domain descriptor d looks like
IsDataRef(d) == "data" \in DOMAIN d /\ "field" \in DOMAIN d

IsTemporalDomain(d) ==
  /\ IsDataRef(d)
  /\ \/ d = [data |-> <<call.fieldDef.timeUnit>>, field |-> <<"date">>]
     \/ /\ d.data = dataName(SCALE)
        /\ "sort" \in DOMAIN d
        /\ d.sort = [kind |-> "object", field |-> d.field, op |-> "min"]

IsStackDomain(d) ==
  \/ d = [values |-> <<0, 1>>]
  \/ IsDataRef(d) /\ d.data = dataName(STACKED_SCALE) /\ d.field[1] = "sum_"

IsRawDomain(d) ==
  /\ DOMAIN d = {"data", "field"}
  /\ d.data = <<SCALE>>
  /\ d.field[2] # call.fieldDef.aggregate
  /\ d.field[3] = call.fieldDef.field

BothBinFields(d) ==
  /\ DOMAIN d = {"data", "fields2"}
  /\ d.data = dataName(SCALE)
  /\ d.fields2 = << <<"", "bin", call.fieldDef.field, "_start">>,
                    <<"", "bin", call.fieldDef.field, "_end">> >>

IsBinDomain(d) ==
  \/ BothBinFields(d)
  \/ /\ IsDataRef(d)
     /\ d.data = dataName(SCALE)
     /\ d.field[2] = "bin"
     /\ d.field[4] \in {"_range", "_start"}
     /\ (d.field[4] = "_range") <=> ("sort" \in DOMAIN d)

IsSortDomain(d) ==
  /\ DOMAIN d = {"data", "field", "sort"}
  /\ d.field[2] # "bin"
  /\ \/ d.sort = [kind |-> "true"] /\ d.data = dataName(SCALE)
     \/ /\ isDefined(call.sort)
        /\ call.sort.kind = "object"
        /\ d.sort = [kind |-> "object", op |-> call.sort.op, field |-> call.sort.field]

IsDefaultDomain(d) ==
  /\ DOMAIN d = {"data", "field"}
  /\ d.data = dataName(SCALE)
  /\ d.field[2] # "bin"
  /\ d.field[3] = call.fieldDef.field

\* C6: domain() returns the result of the first applicable rule in the order
\* explicit domain (verbatim), temporal field, stacked channel, raw-domain
\* override, binned field, sort (ordinal scale), default reference to the
\* summary table.
C6_DomainPrecedence ==
  Parsed =>
    IF ExplicitDomain THEN ret.domain = call.scale.domain
    ELSE IF TemporalField THEN IsTemporalDomain(ret.domain)
    ELSE IF StackedChannel THEN IsStackDomain(ret.domain)
    ELSE IF RawDomainActive THEN IsRawDomain(ret.domain)
    ELSE IF BinnedField THEN IsBinDomain(ret.domain)
    ELSE IF SortPresent THEN IsSortDomain(ret.domain)
    ELSE IsDefaultDomain(ret.domain)

\* a binned field with a sort on an ordinal scale: the bin rule is the first
\* that applies, the sort rule applies too
C6_Witness ==
  /\ Parsed
  /\ ~ExplicitDomain /\ ~TemporalField /\ ~StackedChannel /\ ~RawDomainActive
  /\ BinnedField
  /\ SortPresent
  /\ isDefined(call.sort)
  /\ "sort" \in DOMAIN ret.domain

NormalizedStack == StackedChannel /\ call.stack.offset = "normalize"

\* C7 as stated: with a normalized stack offset on the stacked channel the
\* domain is exactly [0, 1].
C7_NormalizedStackDomain ==
  (Parsed /\ NormalizedStack) => ret.domain = [values |-> <<0, 1>>]

\* C7, amended: with a normalized stack offset on the stacked channel, no
\* explicit domain on the scale and a field that is not temporal, the domain
\* is exactly [0, 1].
C7_NormalizedStackDomainInferred ==
  (Parsed /\ NormalizedStack /\ ~ExplicitDomain /\ ~TemporalField) =>
     ret.domain = [values |-> <<0, 1>>]

\* the normalized stack wins over the bin rule
C7_Witness ==
  /\ Parsed
  /\ NormalizedStack
  /\ ~ExplicitDomain /\ ~TemporalField
  /\ BinnedField
  /\ ret.domain = [values |-> <<0, 1>>]

BinnedQuantitativePosition ==
  /\ call.fieldDef.type = QUANTITATIVE
  /\ call.fieldDef.bin
  /\ call.channel \in {X, Y}

\* C8 as stated: a binned quantitative field on x or y resolves to the
\* linear category and its domain references both the bin-start and the
\* bin-end field of the summary table.
C8_BinnedPosition ==
  BinnedQuantitativePosition =>
    /\ Resolved => ret.type = "linear"
    /\ Parsed => BothBinFields(ret.domain)

\* C8, amended: a binned quantitative field on x or y resolves to the linear
\* category when no explicit category is supplied (an explicit one is kept);
\* its domain references both the bin-start and the bin-end field of the
\* summary table when the resolved category is not ordinal, the scale has no
\* explicit domain and the channel is not the stacked channel.
C8_BinnedPositionInferred ==
  BinnedQuantitativePosition =>
    /\ (Resolved /\ call.scale.type = "undefined") => ret.type = "linear"
    /\ (Resolved /\ call.scale.type # "undefined") => ret.type = call.scale.type
    /\ (Parsed /\ ret.type # "ordinal" /\ ~ExplicitDomain /\ ~StackedChannel) =>
         BothBinFields(ret.domain)

\* a binned quantitative y without explicit category, with a sort and the
\* raw-domain flag
C8_Witness ==
  /\ Parsed
  /\ BinnedQuantitativePosition
  /\ call.scale.type = "undefined"
  /\ call.scale.includeRawDomain
  /\ call.fieldDef.aggregate = "mean"
  /\ ret.type = "linear"
  /\ BothBinFields(ret.domain)

\* C9 as stated: a nominal field on a channel that carries a scale resolves
\* to ordinal.
C9_NominalOrdinal ==
  (Resolved /\ call.fieldDef.type = NOMINAL /\ hasScale(call.channel)) =>
     ret.type = "ordinal"

\* C9, amended: a nominal field on a channel that carries a scale resolves
\* to ordinal when no explicit category is supplied or the channel is row,
\* column or shape.
C9_NominalOrdinalInferred ==
  (/\ Resolved
   /\ call.fieldDef.type = NOMINAL
   /\ hasScale(call.channel)
   /\ (call.scale.type = "undefined" \/ call.channel \in {ROW, COLUMN, SHAPE})) =>
     ret.type = "ordinal"

\* a nominal color without explicit category
C9_Witness ==
  /\ Resolved
  /\ call.fieldDef.type = NOMINAL
  /\ call.channel = COLOR
  /\ call.scale.type = "undefined"
  /\ ret.type = "ordinal"

\* C10: a channel without a scale yields none; otherwise row, column and
\* shape yield ordinal whatever the field type and the explicit category;
\* otherwise an explicit category is returned unchanged; and without an
\* explicit category every field type on a scaled channel yields a category.
C10_ScaleTypeRules ==
  Resolved =>
    IF ~hasScale(call.channel) THEN ret.type = "null"
    ELSE IF call.channel \in {ROW, COLUMN, SHAPE} THEN ret.type = "ordinal"
    ELSE IF call.scale.type # "undefined" THEN ret.type = call.scale.type
    ELSE ret.type \in ScaleTypes

\* a quantitative field on row with an explicit linear category
C10_Witness ==
  /\ Resolved
  /\ call.channel = ROW
  /\ call.fieldDef.type = QUANTITATIVE
  /\ call.scale.type = "linear"
  /\ ret.type = "ordinal"

TemporalColorInferred ==
  /\ call.fieldDef.type = TEMPORAL_
  /\ call.channel = COLOR
  /\ call.scale.type = "undefined"

\* the category scaleType returns for the same temporal field, without time
\* unit, on the position channel x
PlainTimeCategory ==
  scaleType(call.scale, [call.fieldDef EXCEPT !.timeUnit = "undefined"], X, call.mark)

\* C11 as stated: a temporal field on color with no explicit category resolves
\* to a category of its own, distinct from the plain time category of a
\* temporal field on a position channel.
C11_TemporalColorDedicated ==
  (Resolved /\ TemporalColorInferred) => ret.type # PlainTimeCategory

\* C11, amended: a temporal field on color with no explicit category resolves
\* to the plain time category, whatever its time unit: the same category a
\* temporal field without time unit resolves to on a position channel.
C11_TemporalColorIsTime ==
  (Resolved /\ TemporalColorInferred) =>
     /\ ret.type = "time"
     /\ ret.type = PlainTimeCategory

\* a temporal color with the coarse time unit month, which on x is ordinal
C11_Witness ==
  /\ Resolved
  /\ TemporalColorInferred
  /\ call.fieldDef.timeUnit = "month"
  /\ scaleType(call.scale, call.fieldDef, X, call.mark) = "ordinal"
  /\ ret.type = "time"

\* C12 as stated: with no explicit domain, the raw-domain flag, a temporal
\* field whose aggregate shares the domain of the field, and a resolved
\* category time or utc, the domain references the unaggregated source table
\* on the field with the aggregation suppressed.
C12_RawDomainTemporal ==
  (/\ Parsed
   /\ ~ExplicitDomain
   /\ TemporalField
   /\ call.scale.includeRawDomain
   /\ call.fieldDef.aggregate \in SHARED_DOMAIN_OPS
   /\ ret.type \in {"time", "utc"}) =>
     IsRawDomain(ret.domain)

(***************************************************************************)
(* The range of a scale.  A number that may be undefined is UNDEFINED or   *)
(* Num(n), the result of arithmetic on undefined is NaN; an array is       *)
(* Arr(<<...>>) and a string Str("...").  The unit model holds the mark,   *)
(* the configuration, the field of the channel asked for, and for x and y  *)
(* either UNDEFINED (not bound) or whether the field is a measure together *)
(* with the scale of the axis.  rangeMixins ends in [kind |-> "return"]    *)
(* with the mixin or in [kind |-> "throw"].                                *)
(***************************************************************************)
Num(n) == [num |-> n]

NaN == [nan |-> TRUE]

Arr(a) == [values |-> a]

Str(s) == [str |-> s]

BAR == "bar"
TEXT_MARK == "text"
RULE == "rule"
TICK == "tick"
POINT == "point"

\* Model.has and Model.scale for the position channels
has(model, ch) == IF ch = X THEN isDefined(model.x) ELSE isDefined(model.y)

scaleOf(model, ch) ==
  IF ~has(model, ch) THEN UNDEFINED
  ELSE IF ch = X THEN model.x.scale ELSE model.y.scale

\* a || b on numbers that may be undefined
orElse(a, b) == IF isDefined(a) /\ a # Num(0) THEN a ELSE b

\* Math.min
mathMin(a, b) ==
  IF ~isDefined(a) \/ ~isDefined(b) THEN NaN
  ELSE IF a.num <= b.num THEN a ELSE b

\* a slip that takes the band size of the measure's scale
pointBandSizeOfMeasure(model) ==
  LET scaleConfig == model.config.scale
      hasX == has(model, X)
      hasY == has(model, Y)
      xIsMeasure == hasX /\ model.x.isMeasure
      yIsMeasure == hasY /\ model.y.isMeasure
  IN IF hasX /\ hasY
       THEN IF xIsMeasure # yIsMeasure
              THEN scaleOf(model, IF xIsMeasure THEN X ELSE Y).bandSize
              ELSE mathMin(orElse(scaleOf(model, X).bandSize, scaleConfig.bandSize),
                           orElse(scaleOf(model, Y).bandSize, scaleConfig.bandSize))
     ELSE IF hasY
       THEN IF yIsMeasure THEN model.config.scale.bandSize ELSE scaleOf(model, Y).bandSize
     ELSE IF hasX
       THEN IF xIsMeasure THEN model.config.scale.bandSize ELSE scaleOf(model, X).bandSize
     ELSE model.config.scale.bandSize

\* lines 407-429
pointBandSize(model) ==
  LET scaleConfig == model.config.scale
      hasX == has(model, X)
      hasY == has(model, Y)
      xIsMeasure == hasX /\ model.x.isMeasure
      yIsMeasure == hasY /\ model.y.isMeasure
  IN IF hasX /\ hasY
       THEN IF xIsMeasure # yIsMeasure
              THEN scaleOf(model, IF xIsMeasure THEN Y ELSE X).bandSize
              ELSE mathMin(orElse(scaleOf(model, X).bandSize, scaleConfig.bandSize),
                           orElse(scaleOf(model, Y).bandSize, scaleConfig.bandSize))
     ELSE IF hasY
       THEN IF yIsMeasure THEN model.config.scale.bandSize ELSE scaleOf(model, Y).bandSize
     ELSE IF hasX
       THEN IF xIsMeasure THEN model.config.scale.bandSize ELSE scaleOf(model, X).bandSize
     ELSE model.config.scale.bandSize

Return(v) == [kind |-> "return", value |-> v]

Throw(e) == [kind |-> "throw", value |-> Str(e)]

\* (bandSize - 2) * (bandSize - 2)
squareLess2(bandSize) ==
  IF "num" \in DOMAIN bandSize
    THEN Num((bandSize.num - 2) * (bandSize.num - 2))
    ELSE NaN

\* lines 373-394: the range of the size channel
rangeOfSize(model) ==
  LET scaleConfig == model.config.scale IN
  IF model.mark = BAR
    THEN IF isDefined(scaleConfig.barSizeRange)
           THEN Return([range |-> scaleConfig.barSizeRange])
           ELSE LET dimension == IF model.config.mark.orient = "horizontal" THEN Y ELSE X
                IN IF ~isDefined(scaleOf(model, dimension))
                     THEN Throw("TypeError")
                     ELSE Return([range |-> Arr(<<model.config.mark.barThinSize,
                                                  scaleOf(model, dimension).bandSize>>)])
  ELSE IF model.mark = TEXT_MARK THEN Return([range |-> scaleConfig.fontSizeRange])
  ELSE IF model.mark = RULE THEN Return([range |-> scaleConfig.ruleSizeRange])
  ELSE IF model.mark = TICK THEN Return([range |-> scaleConfig.tickSizeRange])
  ELSE IF isDefined(scaleConfig.pointSizeRange)
    THEN Return([range |-> scaleConfig.pointSizeRange])
  ELSE Return([range |-> Arr(<<Num(9), squareLess2(pointBandSize(model))>>)])

\* lines 348-403: the range the channel, the mark and the configuration give
rangeOfChannel(model, ch) ==
  CASE ch = ROW -> Return([range |-> Str("height")])
    [] ch = COLUMN -> Return([range |-> Str("width")])
    [] ch = X -> Return([rangeMin |-> Num(0), rangeMax |-> model.config.cell.width])
    [] ch = Y -> Return([rangeMin |-> model.config.cell.height, rangeMax |-> Num(0)])
    [] ch = SIZE -> rangeOfSize(model)
    [] ch = SHAPE -> Return([range |-> model.config.scale.shapeRange])
    [] ch = COLOR ->
         IF model.fieldDef.type = NOMINAL
           THEN Return([range |-> model.config.scale.nominalColorRange])
           ELSE Return([range |-> model.config.scale.sequentialColorRange])
    [] OTHER -> Return([e \in {} |-> TRUE])

\* a slip that honours an explicit range on every channel
rangeMixinsExplicitAnywhere(scale, model, ch) ==
  IF scale.type = "ordinal" /\ isDefined(scale.bandSize) /\ scale.bandSize # Num(0)
       /\ contains({X, Y}, ch)
    THEN Return([bandSize |-> scale.bandSize])
  ELSE IF isDefined(scale.range)
    THEN Return([range |-> scale.range])
  ELSE rangeOfChannel(model, ch)

\* lines 335-405
rangeMixins(scale, model, ch) ==
  IF scale.type = "ordinal" /\ isDefined(scale.bandSize) /\ scale.bandSize # Num(0)
       /\ contains({X, Y}, ch)
    THEN Return([bandSize |-> scale.bandSize])
  ELSE IF isDefined(scale.range) /\ ~contains({X, Y, ROW, COLUMN}, ch)
    THEN Return([range |-> scale.range])
  ELSE rangeOfChannel(model, ch)

(***************************************************************************)
(* A unit model asked for the range of one of its channels: x and y are    *)
(* not bound, bound to a measure or bound to a dimension; the channel has  *)
(* a field and a scale whose explicit range the author may have set.       *)
(***************************************************************************)
BandSizes == {UNDEFINED, Num(11), Num(21)}

\* x or y: not bound, or bound to a measure or a dimension with its scale; a
\* measure never has a discrete scale
AxisOptions ==
  {UNDEFINED}
    \cup {a \in [isMeasure : BOOLEAN,
                  scale : [type : {"linear", "ordinal"}, bandSize : BandSizes]] :
            a.isMeasure => a.scale.type = "linear"}

Ranges == {UNDEFINED, Arr(<<Num(1), Num(2)>>), Str("category20")}

RangeChannels == {c \in ChannelValues : hasScale(c)}

Configs ==
  [scale :
     [bandSize : {Num(15)},
      barSizeRange : {UNDEFINED, Arr(<<Num(2), Num(10)>>)},
      pointSizeRange : {UNDEFINED, Arr(<<Num(9), Num(100)>>)},
      fontSizeRange : {Arr(<<Num(8), Num(40)>>)},
      ruleSizeRange : {Arr(<<Num(1), Num(5)>>)},
      tickSizeRange : {Arr(<<Num(1), Num(20)>>)},
      shapeRange : {Str("shapes")},
      nominalColorRange : {Str("category10")},
      sequentialColorRange : {Arr(<<Str("#AFC6A3"), Str("#09622A")>>)}],
   cell : {[width |-> Num(200), height |-> Num(150)]},
   mark : [orient : {"undefined", "horizontal"}, barThinSize : {Num(2)}]]

InitRangeSpec ==
  /\ call \in [channel : RangeChannels, range : Ranges,
               fieldDef : {fd \in FieldDefs : /\ fd.type \in {NOMINAL, QUANTITATIVE}
                                              /\ ~fd.bin
                                              /\ fd.timeUnit = "undefined"
                                              /\ fd.aggregate = "undefined"},
               mark : {BAR, TEXT_MARK, RULE, TICK, POINT}, config : Configs, x : AxisOptions, y : AxisOptions]
  /\ ret = [stage |-> "model", range |-> UNDEFINED]
  /\ modelName = <<>>
  /\ channel = X_NAME
  /\ children = <<>>
  /\ comps = <<>>
  /\ scales = <<>>
  /\ input = [children |-> <<>>, comps |-> <<>>, scales |-> <<>>]
  /\ outcome = NotCalled

\* model.scale(channel) with the explicit range of the author: the scale of
\* the axis for x and y, else a scale of the category the field resolves to
rangeScale ==
  IF call.channel \in {X, Y}
    THEN IF ~has(call, call.channel) THEN UNDEFINED
         ELSE [type |-> scaleOf(call, call.channel).type,
               bandSize |-> scaleOf(call, call.channel).bandSize,
               range |-> call.range]
    ELSE [type |-> scaleType([type |-> "undefined"], call.fieldDef, call.channel, call.mark),
          bandSize |-> UNDEFINED,
          range |-> call.range]

\* parseMainScale for a channel that has a scale: the range mixin
RangeMixins ==
  /\ ret.stage = "model"
  /\ isDefined(rangeScale)
  /\ ret' = [stage |-> "range", range |-> rangeMixins(rangeScale, call, call.channel)]
  /\ UNCHANGED <<call, modelName, channel, children, comps, scales, input, outcome>>

SpecRange == InitRangeSpec /\ [][RangeMixins]_vars

(***************************************************************************)
(* Properties of rangeMixins and pointBandSize                             *)
(***************************************************************************)
Ranged == ret.stage = "range"

\* what the range of a position or facet channel is, whatever the author set
PositionRange ==
  IF /\ call.channel \in {X, Y}
     /\ rangeScale.type = "ordinal"
     /\ "num" \in DOMAIN rangeScale.bandSize
    THEN [bandSize |-> rangeScale.bandSize]
  ELSE IF call.channel = ROW THEN [range |-> Str("height")]
  ELSE IF call.channel = COLUMN THEN [range |-> Str("width")]
  ELSE IF call.channel = X THEN [rangeMin |-> Num(0), rangeMax |-> call.config.cell.width]
  ELSE [rangeMin |-> call.config.cell.height, rangeMax |-> Num(0)]

\* C13: on x, y, row and column rangeMixins returns the same for every
\* explicit range of the scale (the band size for an ordinal x or y with a
\* band size, else 'height' for row, 'width' for column, 0..cell width for x,
\* cell height..0 for y); on every other channel an explicit range, when set,
\* is returned verbatim before the mark and the configuration are looked at.
C13_PositionRangeNotOverridable ==
  Ranged =>
    IF call.channel \in {X, Y, ROW, COLUMN}
      THEN /\ ret.range = Return(PositionRange)
           /\ \A r \in Ranges :
                rangeMixins([rangeScale EXCEPT !.range = r], call, call.channel)
                  = ret.range
      ELSE isDefined(call.range) => ret.range = Return([range |-> call.range])

\* an explicit range on a linear x is ignored
C13_Witness ==
  /\ Ranged
  /\ isDefined(call.range)
  /\ call.channel = X
  /\ rangeScale.type = "linear"
  /\ ret.range = Return([rangeMin |-> Num(0), rangeMax |-> Num(200)])

\* the default range of the size of a point is asked for
PointSizeDefault ==
  /\ call.channel = SIZE
  /\ call.mark \notin {BAR, TEXT_MARK, RULE, TICK}
  /\ ~isDefined(call.range)
  /\ ~isDefined(call.config.scale.pointSizeRange)

Bound(a) == isDefined(a)

Discrete(a) == isDefined(a) /\ ~a.isMeasure

\* the band size of an axis, the configured one when it is not known
KnownBandSize(a) ==
  IF isDefined(a.scale.bandSize) THEN a.scale.bandSize ELSE call.config.scale.bandSize

Smaller(a, b) == IF a.num <= b.num THEN a ELSE b

\* C14: the band size behind the default point size range [9, (bandSize-2)^2]
\* is, with x and y bound and exactly one a measure, the band size of the
\* scale of the discrete one; with both bound and both discrete, the smaller
\* of the two band sizes, each replaced by the configured one when not known;
\* with one bound, its band size if discrete and the configured one if a
\* measure; with none bound, the configured one.
C14_PointBandSize ==
  (Ranged /\ PointSizeDefault) =>
    \E b \in BandSizes \cup {call.config.scale.bandSize} :
      /\ ret.range = Return([range |-> Arr(<<Num(9), squareLess2(b)>>)])
      /\ IF Bound(call.x) /\ Bound(call.y)
           THEN /\ (Discrete(call.x) /\ ~Discrete(call.y)) => b = call.x.scale.bandSize
                /\ (Discrete(call.y) /\ ~Discrete(call.x)) => b = call.y.scale.bandSize
                /\ (Discrete(call.x) /\ Discrete(call.y)) =>
                     b = Smaller(KnownBandSize(call.x), KnownBandSize(call.y))
         ELSE IF Bound(call.x)
           THEN b = IF Discrete(call.x) THEN call.x.scale.bandSize
                    ELSE call.config.scale.bandSize
         ELSE IF Bound(call.y)
           THEN b = IF Discrete(call.y) THEN call.y.scale.bandSize
                    ELSE call.config.scale.bandSize
         ELSE b = call.config.scale.bandSize

\* a measure on x with a band size of its own and a dimension on y: the
\* range comes from the band size of y
C14_Witness ==
  /\ Ranged
  /\ PointSizeDefault
  /\ Bound(call.x) /\ call.x.isMeasure /\ call.x.scale.bandSize = Num(21)
  /\ Discrete(call.y) /\ call.y.scale.bandSize = Num(11)
  /\ ret.range = Return([range |-> Arr(<<Num(9), Num(81)>>)])

(***************************************************************************)
(* The optional properties of a scale.  A rule returns UNDEFINED or a      *)
(* value: a boolean Bool(b), a number Num(n) or a string Str(s).           *)
(* parseMainScale puts on the descriptor the properties whose rule returns *)
(* a value; the descriptor's properties are a set of [property, value].    *)
(***************************************************************************)
Bool(b) == [bool |-> b]

\* time.smallestUnit for the single time units
smallestUnit(timeUnit) ==
  CASE timeUnit = "undefined" -> UNDEFINED
    [] timeUnit = "hours" -> Str("hour")
    [] timeUnit \in {"day", "date"} -> Str("day")
    [] OTHER -> Str(timeUnit)

\* lines 430-438
clamp(scale) ==
  IF contains({"linear", "pow", "sqrt", "log", "time", "utc"}, scale.type)
    THEN scale.clamp
    ELSE UNDEFINED

\* lines 440-445
exponent(scale) == IF scale.type = "pow" THEN scale.exponent ELSE UNDEFINED

\* lines 447-460
nice(scale, ch, fieldDef) ==
  IF contains({"linear", "pow", "sqrt", "log", "time", "utc", "quantize"}, scale.type)
    THEN IF isDefined(scale.nice) THEN scale.nice
         ELSE IF contains({"time", "utc"}, scale.type) THEN smallestUnit(fieldDef.timeUnit)
         ELSE Bool(contains({X, Y}, ch))
    ELSE UNDEFINED

\* lines 463-476
padding(scale, ch) ==
  IF scale.type = "ordinal" /\ contains({X, Y}, ch) THEN scale.padding ELSE UNDEFINED

\* lines 478-485
points(scale, ch) ==
  IF scale.type = "ordinal" /\ contains({X, Y}, ch) THEN Bool(TRUE) ELSE UNDEFINED

\* lines 487-493
round(scale, ch) ==
  IF contains({X, Y, ROW, COLUMN, SIZE}, ch) /\ isDefined(scale.round)
    THEN scale.round
    ELSE UNDEFINED

\* a slip that forgets the bin
zeroIgnoresBin(scale, ch, fieldDef) ==
  IF ~contains({"time", "utc", "ordinal"}, scale.type)
    THEN IF isDefined(scale.zero) THEN scale.zero
         ELSE Bool(contains({X, Y}, ch))
    ELSE UNDEFINED

\* lines 496-506
zero(scale, ch, fieldDef) ==
  IF ~contains({"time", "utc", "ordinal"}, scale.type)
    THEN IF isDefined(scale.zero) THEN scale.zero
         ELSE Bool(~fieldDef.bin /\ contains({X, Y}, ch))
    ELSE UNDEFINED

\* lines 86-96: the optional properties, and exports[property](...)
propertyValue(property, scale, ch, fieldDef) ==
  CASE property = "round" -> round(scale, ch)
    [] property = "clamp" -> clamp(scale)
    [] property = "nice" -> nice(scale, ch, fieldDef)
    [] property = "exponent" -> exponent(scale)
    [] property = "zero" -> zero(scale, ch, fieldDef)
    [] property = "padding" -> padding(scale, ch)
    [] property = "points" -> points(scale, ch)

\* lines 85-101: add optional properties
optionalProperties(scale, ch, fieldDef) ==
  {[property |-> p, value |-> propertyValue(p, scale, ch, fieldDef)] :
     p \in {q \in {"round", "clamp", "nice", "exponent", "zero", "padding", "points"} :
            isDefined(propertyValue(q, scale, ch, fieldDef))}}

(***************************************************************************)
(* A resolved scale handed to the property rules of parseMainScale         *)
(***************************************************************************)
InitPropertySpec ==
  /\ call \in [channel : RangeChannels,
               scale : [type : ScaleTypes,
                        zero : {UNDEFINED, Bool(TRUE), Bool(FALSE)},
                        round : {UNDEFINED, Bool(TRUE)},
                        clamp : {UNDEFINED, Bool(TRUE)},
                        nice : {UNDEFINED, Bool(FALSE)},
                        exponent : {UNDEFINED, Num(2)},
                        padding : {UNDEFINED, Num(1)}],
               fieldDef : {fd \in FieldDefs :
                             fd.type = QUANTITATIVE /\ fd.aggregate = "undefined"}]
  /\ ret = [stage |-> "scale", properties |-> {}]
  /\ modelName = <<>>
  /\ channel = X_NAME
  /\ children = <<>>
  /\ comps = <<>>
  /\ scales = <<>>
  /\ input = [children |-> <<>>, comps |-> <<>>, scales |-> <<>>]
  /\ outcome = NotCalled

\* parseMainScale for a channel that has a scale: the optional properties
ParseProperties ==
  /\ ret.stage = "scale"
  /\ ret' = [stage |-> "properties",
             properties |-> optionalProperties(call.scale, call.channel, call.fieldDef)]
  /\ UNCHANGED <<call, modelName, channel, children, comps, scales, input, outcome>>

SpecProperty == InitPropertySpec /\ [][ParseProperties]_vars

(***************************************************************************)
(* Properties of the zero rule                                             *)
(***************************************************************************)
PropertiesParsed == ret.stage = "properties"

ZeroOf(properties) == {p \in properties : p.property = "zero"}

\* C15: for the categories time, utc and ordinal the descriptor has no zero
\* property; for every other category zero is the explicit value of the scale
\* when set, else true only when the field is unbinned and the channel is x
\* or y.
C15_ZeroRule ==
  PropertiesParsed =>
    IF call.scale.type \in {"time", "utc", "ordinal"}
      THEN ZeroOf(ret.properties) = {}
      ELSE ZeroOf(ret.properties) =
             {[property |-> "zero",
               value |-> IF isDefined(call.scale.zero) THEN call.scale.zero
                         ELSE Bool(~call.fieldDef.bin /\ call.channel \in {X, Y})]}

\* a binned field on x with a linear scale and no explicit zero
C15_Witness ==
  /\ PropertiesParsed
  /\ call.scale.type = "linear"
  /\ ~isDefined(call.scale.zero)
  /\ call.fieldDef.bin
  /\ call.channel = X
  /\ ZeroOf(ret.properties) = {[property |-> "zero", value |-> Bool(FALSE)]}

(***************************************************************************)
(* parseScaleComponent of a unit model: for every channel of the model     *)
(* that has a scale, the main scale and, for color, the legend scales.     *)
(* The encoding binds each channel to a field or to nothing; the legend of *)
(* color is requested unless the author switched it off.  The result is a  *)
(* dictionary from channel to {main, colorLegend, binColorLegend}, a       *)
(* member the code does not set being UNDEFINED.                           *)
(***************************************************************************)
\* the channel as the text scaleName scopes
channelName(ch) ==
  CASE ch = X -> X_NAME
    [] ch = COLOR -> COLOR_NAME
    [] ch = SHAPE -> <<"s", "h", "a", "p", "e">>

\* Model.scale(channel): a channel bound to a field has a scale when the
\* channel carries one, its category resolved by scaleType
componentScale(model, ch) ==
  IF ~isDefined(model.encoding[ch]) \/ ~hasScale(ch) THEN UNDEFINED
  ELSE [type |-> scaleType([type |-> "undefined"], model.encoding[ch], ch, model.mark),
        domain |-> UNDEFINED,
        includeRawDomain |-> FALSE]

\* Model.legend(COLOR)
legend(model, ch) == ch = COLOR /\ isDefined(model.encoding[ch]) /\ model.legend

\* lines 70-80: name, type and domain of the main scale
parseMainScale(model, fieldDef, ch) ==
  LET scale == componentScale(model, ch) IN
  [name |-> scaleName(model.name, channelName(ch)),
   type |-> scale.type,
   domain |-> domain(scale, fieldDef, ch, UNDEFINED, UNDEFINED)]

\* a slip that gives every ordinal, binned or time unit field a legend scale
componentOfChannelAnyChannel(model, ch) ==
  LET fieldDef == model.encoding[ch]
      scale == componentScale(model, ch)
      withLegend == fieldDef.type = ORDINAL \/ fieldDef.bin \/ fieldDef.timeUnit # "undefined"
  IN [main |-> parseMainScale(model, fieldDef, ch),
      colorLegend |-> IF withLegend
                        THEN parseColorLegendScale(model.name, scale, fieldDef)
                        ELSE UNDEFINED,
      binColorLegend |-> IF withLegend /\ fieldDef.bin
                           THEN parseBinColorLegendLabel(model.name, scale, fieldDef)
                           ELSE UNDEFINED]

\* lines 47-61: the scales of a channel that has a scale
componentOfChannel(model, ch) ==
  LET fieldDef == model.encoding[ch]
      scale == componentScale(model, ch)
      withLegend == /\ ch = COLOR
                    /\ legend(model, COLOR)
                    /\ (fieldDef.type = ORDINAL \/ fieldDef.bin
                          \/ fieldDef.timeUnit # "undefined")
  IN [main |-> parseMainScale(model, fieldDef, ch),
      colorLegend |-> IF withLegend
                        THEN parseColorLegendScale(model.name, scale, fieldDef)
                        ELSE UNDEFINED,
      binColorLegend |-> IF withLegend /\ fieldDef.bin
                           THEN parseBinColorLegendLabel(model.name, scale, fieldDef)
                           ELSE UNDEFINED]

\* lines 45-64: the reduce over model.channels(), from the k-th channel on
RECURSIVE componentReduce(_, _, _)
componentReduce(model, k, scale) ==
  IF k > Len(model.channels) THEN scale
  ELSE LET ch == model.channels[k] IN
       componentReduce(model, k + 1,
                       IF isDefined(componentScale(model, ch))
                         THEN dictPut(scale, ch, componentOfChannel(model, ch))
                         ELSE scale)

\* lines 44-65
parseScaleComponent(model) == componentReduce(model, 1, <<>>)

InitComponentSpec ==
  /\ call \in [name : {LAYER_ \o <<"0">>},
               mark : Marks,
               channels : {<<X, COLOR, SHAPE>>},
               encoding : [{X, COLOR, SHAPE} ->
                             {UNDEFINED} \cup
                               {fd \in FieldDefs : /\ fd.aggregate = "undefined"
                                                   /\ fd.timeUnit \in {"undefined", "month"}}],
               legend : BOOLEAN]
  /\ ret = [stage |-> "model", scale |-> <<>>]
  /\ modelName = <<>>
  /\ channel = X_NAME
  /\ children = <<>>
  /\ comps = <<>>
  /\ scales = <<>>
  /\ input = [children |-> <<>>, comps |-> <<>>, scales |-> <<>>]
  /\ outcome = NotCalled

\* UnitModel.parseScale: component.scale = parseScaleComponent(this)
ParseScaleComponent ==
  /\ ret.stage = "model"
  /\ ret' = [stage |-> "component", scale |-> parseScaleComponent(call)]
  /\ UNCHANGED <<call, modelName, channel, children, comps, scales, input, outcome>>

SpecComponent == InitComponentSpec /\ [][ParseScaleComponent]_vars

(***************************************************************************)
(* Properties of parseScaleComponent                                       *)
(***************************************************************************)
ComponentParsed == ret.stage = "component"

ComponentOf(ch) == (CHOOSE i \in 1..Len(ret.scale) : ret.scale[i].key = ch)

HasFullLegend(ch) ==
  dictHas(ret.scale, ch) /\ isDefined(ret.scale[ComponentOf(ch)].value.colorLegend)

HasBinLabelLegend(ch) ==
  dictHas(ret.scale, ch) /\ isDefined(ret.scale[ComponentOf(ch)].value.binColorLegend)

LegendField(fd) == fd.type = ORDINAL \/ fd.bin \/ fd.timeUnit # "undefined"

\* C16: the full legend scale exists exactly for the color channel when a
\* legend is requested and the field is ordinal, binned or has a time unit;
\* the binned-label legend scale exists exactly when in addition the field is
\* binned.
C16_LegendScales ==
  ComponentParsed =>
    \A ch \in {X, COLOR, SHAPE} :
      /\ HasFullLegend(ch) <=>
           /\ ch = COLOR
           /\ isDefined(call.encoding[COLOR])
           /\ call.legend
           /\ LegendField(call.encoding[COLOR])
      /\ HasBinLabelLegend(ch) <=> (HasFullLegend(ch) /\ call.encoding[ch].bin)

\* a binned color with a legend next to an ordinal shape and a binned x
C16_Witness ==
  /\ ComponentParsed
  /\ call.legend
  /\ isDefined(call.encoding[COLOR]) /\ call.encoding[COLOR].bin
  /\ isDefined(call.encoding[SHAPE]) /\ call.encoding[SHAPE].type = ORDINAL
  /\ isDefined(call.encoding[X]) /\ call.encoding[X].bin
  /\ HasFullLegend(COLOR) /\ HasBinLabelLegend(COLOR)
  /\ ~HasFullLegend(SHAPE) /\ ~HasFullLegend(X)

(***************************************************************************)
(* The legend scales after mergeScales                                     *)
(***************************************************************************)
LegendMembers == {"colorLegend", "binColorLegend"}

ResultLegends == {f \in LegendMembers : ResultComp[f] # Null}

\* C20: after mergeScales returns, every legend scale of the returned
\* component set has the merged domain of the main scale as its domain, also
\* when a single sub-view is merged.
C20_LegendsShareMergedDomain ==
  Returned =>
    \A f \in ResultLegends : scales[ResultComp[f]].domain = ResultMain.domain

\* a single sub-view with both legend scales: their own domains, derived from
\* the color field, are replaced by the domain of the main scale
C20_Witness ==
  /\ Returned
  /\ Cardinality(Defining) = 1
  /\ ResultLegends = LegendMembers
  /\ \A f \in LegendMembers :
       /\ input.scales[ResultComp[f]].domain # ResultMain.domain
       /\ scales[ResultComp[f]].domain = ResultMain.domain

(***************************************************************************)
(* UnitModel.initEncoding (compile/unit.ts).  The encoding of the input    *)
(* specification is an object of the heap: a dictionary from channel to a  *)
(* reference to a channel definition, which is a definition {field, value, *)
(* type} or an array of references to definitions.  initEncoding works on  *)
(* a deep copy, deletes entries of the copy and normalizes definitions in  *)
(* place; log.warn appends to the warnings.                                *)
(***************************************************************************)
DETAIL == "detail"

\* the identity of the copy duplicate makes of an object: the objects of an
\* input specification have identities below 8
CopyOf(id) == id + 8

EncodingId == 1

\* channel.supportMark: the marks a channel makes sense for
supportMark(ch, mark) ==
  CASE ch = SHAPE -> mark = POINT
    [] ch = TEXT -> mark = TEXT_MARK
    [] ch = SIZE -> mark \in {POINT, BAR, TEXT_MARK, RULE, TICK}
    [] OTHER -> TRUE

\* type.getFullName: the full name of a type or of its abbreviation
getFullName(type) ==
  CASE type \in {"q", "quantitative"} -> QUANTITATIVE
    [] type \in {"n", "nominal"} -> NOMINAL
    [] type \in {"o", "ordinal"} -> ORDINAL
    [] type \in {"t", "temporal"} -> TEMPORAL_
    [] OTHER -> "undefined"

\* fielddef.isFieldDef, fielddef.isValueDef
isFieldDef(channelDef) == channelDef.field # "undefined"

isValueDef(channelDef) == channelDef.value # "undefined"

\* fielddef.normalize: the type of a field definition becomes its full name,
\* in place
normalize(heap, id, ch) ==
  IF isFieldDef(heap[id])
    THEN [heap EXCEPT ![id].type = getFullName(@)]
    ELSE heap

\* util.duplicate: a deep copy, every object reachable from the value
\* copied, the references of a copy pointing to copies
duplicate(heap) ==
  [id \in DOMAIN heap \cup {CopyOf(i) : i \in DOMAIN heap} |->
     IF id \in DOMAIN heap THEN heap[id]
     ELSE LET obj == heap[id - 8] IN
          CASE obj.kind = "dict" ->
                 [obj EXCEPT !.entries = [i \in 1..Len(obj.entries) |->
                                            [key |-> obj.entries[i].key,
                                             value |-> CopyOf(obj.entries[i].value)]]]
            [] obj.kind = "array" ->
                 [obj EXCEPT !.items = [i \in 1..Len(obj.items) |-> CopyOf(obj.items[i])]]
            [] OTHER -> obj]

\* delete encoding[channel]
deleteKey(heap, enc, ch) ==
  [heap EXCEPT ![enc].entries = SelectSeq(@, LAMBDA e : e.key # ch)]

\* encoding[channel]
entryOf(heap, enc, ch) ==
  heap[enc].entries[CHOOSE i \in 1..Len(heap[enc].entries) : heap[enc].entries[i].key = ch].value

\* lines 120-128: the reduce over the definitions of an array, from the
\* k-th on; the kept ones are normalized
RECURSIVE initEncodingReduce(_, _, _, _, _)
initEncodingReduce(st, items, k, ch, channelDefs) ==
  IF k > Len(items) THEN [st |-> st, channelDefs |-> channelDefs]
  ELSE LET channelDef == st.heap[items[k]] IN
       IF ~isFieldDef(channelDef) /\ ~isValueDef(channelDef)
         THEN initEncodingReduce([st EXCEPT !.warnings = Append(@, <<"emptyFieldDef", ch>>)],
                                 items, k + 1, ch, channelDefs)
         ELSE initEncodingReduce([st EXCEPT !.heap = normalize(@, items[k], ch)],
                                 items, k + 1, ch, Append(channelDefs, items[k]))

\* a slip that keeps the channel the mark does not support
initEncodingChannelKeepsUnsupported(st, enc, ch, mark) ==
  LET id == entryOf(st.heap, enc, ch) IN
  IF ~supportMark(ch, mark)
    THEN [st EXCEPT !.warnings = Append(@, <<"incompatibleChannel", ch, mark>>)]
  ELSE IF st.heap[id].kind = "array"
    THEN LET r == initEncodingReduce(st, st.heap[id].items, 1, ch, <<>>)
         IN [r.st EXCEPT !.heap[id].items = r.channelDefs]
  ELSE IF ~isFieldDef(st.heap[id]) /\ ~isValueDef(st.heap[id])
    THEN [st EXCEPT !.warnings = Append(@, <<"emptyFieldDef", ch>>),
                    !.heap = deleteKey(@, enc, ch)]
  ELSE [st EXCEPT !.heap = normalize(@, id, ch)]

\* lines 111-137: the arrow function of Object.keys(encoding).forEach
initEncodingChannel(st, enc, ch, mark) ==
  LET id == entryOf(st.heap, enc, ch) IN
  IF ~supportMark(ch, mark)
    THEN [st EXCEPT !.warnings = Append(@, <<"incompatibleChannel", ch, mark>>),
                    !.heap = deleteKey(@, enc, ch)]
  ELSE IF st.heap[id].kind = "array"
    THEN LET r == initEncodingReduce(st, st.heap[id].items, 1, ch, <<>>)
         IN [r.st EXCEPT !.heap[id].items = r.channelDefs]
  ELSE IF ~isFieldDef(st.heap[id]) /\ ~isValueDef(st.heap[id])
    THEN [st EXCEPT !.warnings = Append(@, <<"emptyFieldDef", ch>>),
                    !.heap = deleteKey(@, enc, ch)]
  ELSE [st EXCEPT !.heap = normalize(@, id, ch)]

\* the forEach over the keys the copy had when the loop began
RECURSIVE initEncodingLoop(_, _, _, _, _)
initEncodingLoop(st, enc, keys, k, mark) ==
  IF k > Len(keys) THEN st
  ELSE initEncodingLoop(initEncodingChannel(st, enc, keys[k], mark), enc, keys, k + 1, mark)

\* lines 106-140: the heap and the warnings after the call, and the
\* reference it returns
initEncoding(heap, warnings, mark, encoding) ==
  LET enc == CopyOf(encoding)
      st0 == [heap |-> duplicate(heap), warnings |-> warnings]
      keys == [i \in 1..Len(st0.heap[enc].entries) |-> st0.heap[enc].entries[i].key]
  IN [st |-> initEncodingLoop(st0, enc, keys, 1, mark), encoding |-> enc]

(***************************************************************************)
(* The unit specifications handed to the constructor: a mark and an        *)
(* encoding whose keys, in the order written, are among x, shape, text and *)
(* detail.                                                                 *)
(***************************************************************************)
ChannelDef(f, v, t) == [kind |-> "def", field |-> f, value |-> v, type |-> t]

DefKinds ==
  [short |-> ChannelDef("f", "undefined", "q"),
   full |-> ChannelDef("f", "undefined", "temporal"),
   value |-> ChannelDef("undefined", "v", "undefined"),
   empty |-> ChannelDef("undefined", "undefined", "undefined")]

EncodingKeys == <<X, SHAPE, TEXT, DETAIL>>

\* the object of the k-th key
defId(k) == EncodingId + k

\* what each key is bound to: nothing, a definition, or (detail) an array of
\* a field definition and an empty one
EncodingChoices ==
  {c \in [1..Len(EncodingKeys) -> {"absent", "array"} \cup DOMAIN DefKinds] :
     \A k \in 1..Len(EncodingKeys) : c[k] = "array" => EncodingKeys[k] = DETAIL}

specHeap(c) ==
  LET bound == SelectSeq([k \in 1..Len(EncodingKeys) |-> k], LAMBDA k : c[k] # "absent")
      ids == {EncodingId} \cup {defId(k) : k \in {j \in 1..Len(EncodingKeys) : c[j] # "absent"}}
               \cup (IF \E k \in 1..Len(EncodingKeys) : c[k] = "array" THEN {6, 7} ELSE {})
  IN [id \in ids |->
        IF id = EncodingId
          THEN [kind |-> "dict",
                entries |-> [i \in 1..Len(bound) |->
                               [key |-> EncodingKeys[bound[i]], value |-> defId(bound[i])]]]
        ELSE IF id = 6 THEN DefKinds.empty
        ELSE IF id = 7 THEN DefKinds.short
        ELSE IF c[id - EncodingId] = "array" THEN [kind |-> "array", items |-> <<6, 7>>]
        ELSE DefKinds[c[id - EncodingId]]]

InitUnitSpec ==
  /\ \E c \in EncodingChoices, m \in {POINT, BAR, TEXT_MARK} :
       call = [mark |-> m, encoding |-> EncodingId, heap |-> specHeap(c)]
  /\ ret = [stage |-> "spec", heap |-> call.heap, warnings |-> <<>>, encoding |-> Null]
  /\ modelName = <<>>
  /\ channel = X_NAME
  /\ children = <<>>
  /\ comps = <<>>
  /\ scales = <<>>
  /\ input = [children |-> <<>>, comps |-> <<>>, scales |-> <<>>]
  /\ outcome = NotCalled

\* the constructor: this.encoding = this.initEncoding(mark, spec.encoding)
InitEncoding ==
  /\ ret.stage = "spec"
  /\ LET r == initEncoding(ret.heap, ret.warnings, call.mark, call.encoding)
     IN ret' = [stage |-> "unit", heap |-> r.st.heap, warnings |-> r.st.warnings,
                encoding |-> r.encoding]
  /\ UNCHANGED <<call, modelName, channel, children, comps, scales, input, outcome>>

SpecUnit == InitUnitSpec /\ [][InitEncoding]_vars

(***************************************************************************)
(* Properties of initEncoding                                              *)
(***************************************************************************)
Constructed == ret.stage = "unit"

KeysOf(heap, enc) == {heap[enc].entries[i].key : i \in 1..Len(heap[enc].entries)}

InputKeys == KeysOf(call.heap, call.encoding)

UnitKeys == KeysOf(ret.heap, ret.encoding)

Warned(w) == \E i \in 1..Len(ret.warnings) : ret.warnings[i] = w

\* a definition is normalized when a field definition has a full type name
NormalizedDef(d) == isFieldDef(d) => d.type \in {NOMINAL, ORDINAL, QUANTITATIVE, TEMPORAL_}

NormalizedChannel(ch) ==
  LET d == ret.heap[entryOf(ret.heap, ret.encoding, ch)] IN
  IF d.kind = "array"
    THEN \A i \in 1..Len(d.items) : NormalizedDef(ret.heap[d.items[i]])
    ELSE NormalizedDef(d)

\* C17: a channel the mark does not support is removed from the encoding of
\* the unit and a warning is recorded, no error is raised and every
\* remaining channel is normalized, so that every channel of the unit's
\* encoding is supported by the mark; the encoding object of the input
\* specification is left as it was.
C17_UnsupportedChannelDropped ==
  Constructed =>
    /\ \A ch \in InputKeys :
         ~supportMark(ch, call.mark) =>
           /\ ch \notin UnitKeys
           /\ Warned(<<"incompatibleChannel", ch, call.mark>>)
    /\ UnitKeys \subseteq InputKeys
    /\ \A ch \in UnitKeys : supportMark(ch, call.mark) /\ NormalizedChannel(ch)
    /\ \A id \in DOMAIN call.heap : ret.heap[id] = call.heap[id]

\* a bar with a shape, next to an x whose type is abbreviated
C17_Witness ==
  /\ Constructed
  /\ call.mark = BAR
  /\ SHAPE \in InputKeys
  /\ X \in InputKeys
  /\ call.heap[entryOf(call.heap, call.encoding, X)].type = "q"
  /\ UnitKeys = InputKeys \ {SHAPE, TEXT}
  /\ Warned(<<"incompatibleChannel", SHAPE, BAR>>)
  /\ ret.heap[entryOf(ret.heap, ret.encoding, X)].type = QUANTITATIVE
  /\ ret.heap[entryOf(call.heap, call.encoding, X)].type = "q"

(***************************************************************************)
(* UnitModel.initSize (compile/unit.ts): the fixed width and height of the *)
(* unit, UNDEFINED when the size is computed dynamically.                  *)
(***************************************************************************)
\* typeof v === 'string'
isString(v) == "str" \in DOMAIN v

\* lines 190-205: the width
initSizeWidth(mark, scale, width, cellConfig, scaleConfig) ==
  IF isDefined(width) THEN Return(width)
  ELSE IF isDefined(scale.x)
    THEN IF ~hasDiscreteDomain(scale.x.type) \/ scale.x.rangeStep \in {UNDEFINED, Num(0)}
           THEN Return(cellConfig.width)
           ELSE Return(width)
  ELSE IF mark = TEXT_MARK THEN Return(scaleConfig.textXRangeStep)
  ELSE IF isString(scaleConfig.rangeStep)
    THEN Throw("_initSize does not handle string rangeSteps")
  ELSE Return(scaleConfig.rangeStep)

\* a slip that takes the configured range step for the height unseen
initSizeHeightUnchecked(mark, scale, height, cellConfig, scaleConfig) ==
  IF isDefined(height) THEN Return(height)
  ELSE IF isDefined(scale.y)
    THEN IF ~hasDiscreteDomain(scale.y.type) \/ scale.y.rangeStep \in {UNDEFINED, Num(0)}
           THEN Return(cellConfig.height)
           ELSE Return(height)
  ELSE Return(scaleConfig.rangeStep)

\* lines 207-218: the height
initSizeHeight(mark, scale, height, cellConfig, scaleConfig) ==
  IF isDefined(height) THEN Return(height)
  ELSE IF isDefined(scale.y)
    THEN IF ~hasDiscreteDomain(scale.y.type) \/ scale.y.rangeStep \in {UNDEFINED, Num(0)}
           THEN Return(cellConfig.height)
           ELSE Return(height)
  ELSE IF isString(scaleConfig.rangeStep)
    THEN Throw("_initSize does not handle string rangeSteps")
  ELSE Return(scaleConfig.rangeStep)

\* lines 189-222
initSize(mark, scale, width, height, cellConfig, scaleConfig) ==
  LET w == initSizeWidth(mark, scale, width, cellConfig, scaleConfig)
      h == initSizeHeight(mark, scale, height, cellConfig, scaleConfig)
  IN IF w.kind = "throw" THEN w
     ELSE IF h.kind = "throw" THEN h
     ELSE Return([width |-> w.value, height |-> h.value])

\* a scale of x or y, when the channel has one
SizeScales ==
  {UNDEFINED} \cup [type : {"linear", "ordinal"}, rangeStep : {UNDEFINED, Num(21)}]

InitSizeSpec ==
  /\ call \in [mark : {TEXT_MARK, POINT},
               scale : [x : SizeScales, y : SizeScales],
               width : {UNDEFINED, Num(300)},
               height : {UNDEFINED, Num(300)},
               cellConfig : {[width |-> Num(200), height |-> Num(150)]},
               scaleConfig : [rangeStep : {Num(21), Str("fit")}, textXRangeStep : {Num(90)}]]
  /\ ret = [stage |-> "scales", size |-> UNDEFINED]
  /\ modelName = <<>>
  /\ channel = X_NAME
  /\ children = <<>>
  /\ comps = <<>>
  /\ scales = <<>>
  /\ input = [children |-> <<>>, comps |-> <<>>, scales |-> <<>>]
  /\ outcome = NotCalled

\* the constructor: this.initSize(mark, this.scales, providedWidth,
\* providedHeight, config.cell, config.scale)
InitSize ==
  /\ ret.stage = "scales"
  /\ ret' = [stage |-> "size",
             size |-> initSize(call.mark, call.scale, call.width, call.height,
                               call.cellConfig, call.scaleConfig)]
  /\ UNCHANGED <<call, modelName, channel, children, comps, scales, input, outcome>>

SpecSize == InitSizeSpec /\ [][InitSize]_vars

(***************************************************************************)
(* Properties of initSize                                                  *)
(***************************************************************************)
Sized == ret.stage = "size"

StringRangeStep == isString(call.scaleConfig.rangeStep)

WidthFromRangeStep ==
  ~isDefined(call.width) /\ ~isDefined(call.scale.x) /\ call.mark # TEXT_MARK

HeightFromRangeStep == ~isDefined(call.height) /\ ~isDefined(call.scale.y)

\* C18: initSize raises an error when the width is not provided, there is no
\* x scale, the mark is not text and the configured range step is a string,
\* or when the height is not provided, there is no y scale and the range step
\* is a string; in every other case it returns, and neither the width nor
\* the height it returns is a string.
C18_StringRangeStepRejected ==
  Sized =>
    IF StringRangeStep /\ (WidthFromRangeStep \/ HeightFromRangeStep)
      THEN ret.size = Throw("_initSize does not handle string rangeSteps")
      ELSE /\ ret.size.kind = "return"
           /\ ~isString(ret.size.value.width)
           /\ ~isString(ret.size.value.height)

\* a text mark without scales and sizes: the width is the text range step,
\* the string range step is met for the height
C18_Witness ==
  /\ Sized
  /\ call.mark = TEXT_MARK
  /\ StringRangeStep
  /\ ~isDefined(call.width) /\ ~isDefined(call.scale.x)
  /\ HeightFromRangeStep
  /\ ret.size.kind = "throw"

(***************************************************************************)
(* label.transform (compile/mark/label.ts).  The data of the label's model *)
(* is a reference to a sibling's table ({ref}) or an external source       *)
(* ({url}); the parent's children are known by their names.  Reading a     *)
(* property of undefined throws a TypeError.                               *)
(***************************************************************************)
\* data.isInternalData
isInternalData(data) == "ref" \in DOMAIN data

\* lines 43-54 and 56-67
anchor == Str("top")

offset == Num(1)

\* lines 20-39
transform(data, siblings) ==
  IF isInternalData(data)
    THEN LET matching == SelectSeq(siblings, LAMBDA n : n = data.ref) IN
         IF matching = <<>>
           THEN Throw("TypeError")
           ELSE Return([ref |-> matching[1], anchor |-> anchor, offset |-> offset])
    ELSE Throw("Label requires internal data")

SiblingNames == {"bars", "points", "rules"}

InitLabelSpec ==
  /\ call \in [data : {[url |-> "data.csv"]} \cup {[ref |-> n] : n \in SiblingNames},
               siblings : UNION {[1..n -> SiblingNames] : n \in 0..MaxSiblings}]
  /\ ret = [stage |-> "model", transform |-> UNDEFINED]
  /\ modelName = <<>>
  /\ channel = X_NAME
  /\ children = <<>>
  /\ comps = <<>>
  /\ scales = <<>>
  /\ input = [children |-> <<>>, comps |-> <<>>, scales |-> <<>>]
  /\ outcome = NotCalled

\* the mark compiler asks for the transform of the label
Transform ==
  /\ ret.stage = "model"
  /\ ret' = [stage |-> "transform", transform |-> transform(call.data, call.siblings)]
  /\ UNCHANGED <<call, modelName, channel, children, comps, scales, input, outcome>>

SpecLabel == InitLabelSpec /\ [][Transform]_vars

(***************************************************************************)
(* Properties of label.transform                                           *)
(***************************************************************************)
Transformed == ret.stage = "transform"

NamesSibling ==
  /\ isInternalData(call.data)
  /\ \E i \in 1..Len(call.siblings) : call.siblings[i] = call.data.ref

\* C19 as stated: when the data of the label is not an internal reference,
\* or is an internal reference that names no sibling, transform fails with
\* the error 'Label requires internal data'; otherwise it returns a transform
\* whose ref is the name of the sibling the reference names.
C19_LabelRequiresInternalData ==
  Transformed =>
    IF NamesSibling
      THEN /\ ret.transform.kind = "return"
           /\ ret.transform.value.ref = call.data.ref
      ELSE ret.transform = Throw("Label requires internal data")

====
